---- MODULE Spec2Model ----
(***************************************************************************)
(* Model of the sonic-shell script execution and transport-scheduling      *)
(* core: the AudioEngine singleton of src/services/audioEngine.ts and the  *)
(* Tone.Transport it drives.                                               *)
(*                                                                         *)
(* A script is the text handed to runCode.  It is represented by what it   *)
(* does when compiled and executed: whether `new Function` rejects it      *)
(* (syntaxError) and the sequence of top-level statements it executes,     *)
(* each a call of the loop primitive or a throw.  A loop callback is       *)
(* represented by the voice it attacks and the value it throws, if any.    *)
(* Scripts in this model use the sandbox API only (the instruments, loop,  *)
(* throw) and pass intervals that Tone can parse; SpecRaw adds scripts     *)
(* that call Tone.Transport, SpecRetain scripts that call loop from a      *)
(* timer after their run has ended.                                        *)
(***************************************************************************)
EXTENDS Integers, Sequences, FiniteSets, TLC

(* ------------------------------ bounds --------------------------------- *)
\* number of runCode calls made in one behaviour
MaxCalls == 2
\* transport position (in ticks) up to which the clock is followed
MaxTicks == 3
\* number of messages submitted to the agent in one behaviour
MaxMessages == 1

(* --------------------------- value domains ----------------------------- *)
\* the instrument fields of AudioEngine, by the name the script sees
Voices == {"synth", "kick", "hat", "snare", "poly"}
Objects == Voices \cup {"analyser"}

\* what a throw statement can throw
\*   "Error"      an Error with a non-empty message (SyntaxError, ReferenceError, ...)
\*   "EmptyError" an Error whose message is ""
\*   "String"     a non-Error value such as a string: it has no .message
\*   "Null"       null or undefined: reading .message of it throws a TypeError
Thrown == {"Error", "EmptyError", "String", "Null"}

\* tempo values the UI slider can set (60..200) plus one outside that range
Bpms == {120, 240}

Callback(attack, throws) == [attack |-> attack, throws |-> throws]
LoopStmt(name, interval, cb) ==
    [op |-> "loop", name |-> name, interval |-> interval, callback |-> cb, value |-> "none"]
ThrowStmt(v) ==
    [op |-> "throw", name |-> "", interval |-> 0, callback |-> Callback("none", "none"), value |-> v]
\* a statement that calls a method of Tone.Transport through the Tone
\* parameter: Tone.Transport.start(), .stop() or .cancel()
RawStmt(method) ==
    [op |-> "transport", name |-> method, interval |-> 0,
     callback |-> Callback("none", "none"), value |-> "none"]
\* a statement that keeps the loop primitive for later:
\* setTimeout(() => loop(name, interval, cb), delay)
RetainStmt(name, interval, cb) ==
    [op |-> "retain", name |-> name, interval |-> interval, callback |-> cb, value |-> "none"]
Script(syntaxError, body) == [syntaxError |-> syntaxError, body |-> body]

\* the scripts handed to runCode
Scripts ==
    { Script(FALSE, <<>>),
      Script(FALSE, << LoopStmt("a", 1, Callback("kick", "none")) >>),
      Script(FALSE, << LoopStmt("a", 1, Callback("synth", "none")),
                       LoopStmt("a", 1, Callback("poly", "none")) >>),
      Script(FALSE, << LoopStmt("a", 1, Callback("none", "Null")),
                       LoopStmt("b", 2, Callback("hat", "none")) >>),
      Script(FALSE, << LoopStmt("b", 2, Callback("snare", "Error")),
                       LoopStmt("a", 1, Callback("none", "String")) >>),
      Script(FALSE, << LoopStmt("a", 1, Callback("none", "none")),
                       ThrowStmt("Error") >>),
      Script(FALSE, << ThrowStmt("Null") >>),
      Script(FALSE, << ThrowStmt("EmptyError") >>),
      Script(FALSE, << ThrowStmt("String") >>),
      Script(TRUE,  << LoopStmt("a", 1, Callback("kick", "none")) >>) }

NoScript == Script(FALSE, <<>>)

\* scripts that use the raw Tone module bound to the parameter `Tone`
RawScripts ==
    { Script(FALSE, << RawStmt("start"), ThrowStmt("Error") >>),
      Script(FALSE, << LoopStmt("a", 1, Callback("kick", "none")), RawStmt("cancel") >>),
      Script(FALSE, << RawStmt("start"), LoopStmt("b", 1, Callback("none", "none")),
                       RawStmt("stop") >>) }

\* scripts that keep the loop primitive in a timer callback and call it
\* after runUserScript has returned
RetainScripts ==
    { Script(FALSE, << LoopStmt("a", 1, Callback("kick", "none")),
                       RetainStmt("late", 1, Callback("hat", "none")) >>),
      Script(FALSE, << RetainStmt("late", 2, Callback("none", "none")),
                       ThrowStmt("Error") >>) }

(* ------------------------------- state --------------------------------- *)
VARIABLES
    engine,     \* AudioEngine fields: constructed[o] (times object o was built,
                \* 0 = the field is null) and scheduledEvents
    Transport,  \* Tone.Transport: state, ticks (position), bpm, timeline, nextId
    triggered,  \* voices whose envelope was attacked and not released
    calls,      \* the runCode calls made so far, in call order
    lastRun,    \* index of the call whose script was executed most recently
    out,        \* what the last step did: operation, call, log lines emitted,
                \* Transport methods invoked, loops fired, whether an exception
                \* left the operation uncaught
    app,        \* the App component driving the engine: which App source
                \* (variant), visMode, isPlaying, the calls handleRun has handled
    agent       \* handleAgentSubmit: position, maxTurns, isAgentProcessing

vars == <<engine, Transport, triggered, calls, lastRun, out, app, agent>>

\* the App sources that call audioService
AppVariants == {"part_000", "part_001", "part_002"}

\* no App is mounted: the engine is driven directly
NoApp == [variant |-> "none", visMode |-> "waveform", isPlaying |-> FALSE, handled |-> {}]

\* handleAgentSubmit is not running
NoAgent == [pc |-> "idle", processing |-> FALSE, maxTurns |-> 0, response |-> "none",
            call |-> 0, messages |-> 0, iterations |-> 0, executions |-> 0]

NoResult == [success |-> FALSE, error |-> "none"]
\* what a step remembers of the Transport and the voices it started from
Before == [state |-> Transport.state, ticks |-> Transport.ticks,
           loops |-> Len(Transport.timeline), triggered |-> triggered]
NoBefore == [state |-> "stopped", ticks |-> 0, loops |-> 0, triggered |-> {}]
NoOut == [op |-> "init", call |-> 0, script |-> NoScript, log |-> <<>>, trace |-> <<>>,
          fired |-> <<>>, uncaught |-> FALSE, before |-> NoBefore, arg |-> 0]

\* the part of the state the engine's methods read and write
World == [engine |-> engine, Transport |-> Transport, triggered |-> triggered,
          log |-> <<>>, trace |-> <<>>, fired |-> <<>>, uncaught |-> FALSE]

(* ------------------------- Tone.Transport ------------------------------ *)
\* Transport.pause() in the place of stop(): the position is kept
TransportStop_pause(T) == [T EXCEPT !.state = "stopped"]

\* Transport.stop(): halt the clock and reset the position to zero
TransportStop(T) == [T EXCEPT !.state = "stopped", !.ticks = 0]

\* a cancel that clears one event (the oldest) in the place of all of them
TransportCancel_first(T) ==
    [T EXCEPT !.timeline = IF @ = <<>> THEN @ ELSE Tail(@)]

\* Transport.cancel(): remove every scheduled event
TransportCancel(T) == [T EXCEPT !.timeline = <<>>]

\* Transport.start(): start the clock from the current position
TransportStart(T) == [T EXCEPT !.state = "started"]

\* Transport.scheduleRepeat(cb, interval): append an event, return its id
TransportScheduleRepeat(T, run, name, interval, cb) ==
    [T EXCEPT !.timeline = Append(@, [id |-> T.nextId, run |-> run, name |-> name,
                                      interval |-> interval, callback |-> cb]),
              !.nextId = @ + 1]

(* --------------------------- AudioEngine ------------------------------- *)
\* error.message / err.message of a caught value
Message(v) ==
    CASE v = "Error"      -> "message"
      [] v = "EmptyError" -> ""
      [] v = "String"     -> "undefined"
      [] OTHER            -> "TypeError"

\* reading .message of null or undefined throws inside the catch block
MessageThrows(v) == v = "Null"

\* initialize() without the `if (!this.x)` checks: every call builds anew
initialize_rebuilds(e) ==
    [e EXCEPT !.constructed = [o \in Objects |-> @[o] + 1],
              !.analyserType = "waveform"]

\* initialize() that leaves the chord voice to be built on first use
initialize_lazyPoly(e) ==
    [e EXCEPT !.constructed = [o \in Objects |-> IF @[o] = 0 /\ o # "poly" THEN 1 ELSE @[o]],
              !.analyserType = IF e.constructed["analyser"] = 0 THEN "waveform" ELSE @]

\* initialize(), after Tone.start() resolved: build whatever is still null;
\* a new analyser is built in "waveform" mode
initialize(e) ==
    [e EXCEPT !.constructed = [o \in Objects |-> IF @[o] = 0 THEN 1 ELSE @[o]],
              !.analyserType = IF e.constructed["analyser"] = 0 THEN "waveform" ELSE @]

\* setAnalyserType(type)
setAnalyserType(e, type) ==
    IF e.constructed["analyser"] > 0 THEN [e EXCEPT !.analyserType = type] ELSE e

\* setBpm that clamps the value to the range of the UI slider
setBpm_clamped(w, bpm) ==
    [w EXCEPT !.Transport.bpm = IF bpm > 200 THEN 200 ELSE IF bpm < 60 THEN 60 ELSE bpm]

\* setBpm(bpm)
setBpm(w, bpm) == [w EXCEPT !.Transport.bpm = bpm]

\* v.releaseAll() / v.triggerRelease() on the instrument field v: the voice
\* goes to its release phase; on a null field the call throws a TypeError
release(w, v) ==
    IF w.engine.constructed[v] = 0 THEN [w EXCEPT !.uncaught = TRUE]
    ELSE [w EXCEPT !.triggered = @ \ {v}]

\* stop() without the null checks on the instrument fields
stop_unguarded(w) ==
    LET w1 == [w  EXCEPT !.Transport = TransportStop(@), !.trace = Append(@, "stop")]
        w2 == [w1 EXCEPT !.Transport = TransportCancel(@), !.trace = Append(@, "cancel")]
        w3 == [w2 EXCEPT !.engine.scheduledEvents = <<>>]
    IN  release(release(w3, "poly"), "synth")

\* stop() that forgets Transport.cancel()
stop_keepsLoops(w) ==
    LET w1 == [w  EXCEPT !.Transport = TransportStop(@), !.trace = Append(@, "stop")]
        w3 == [w1 EXCEPT !.engine.scheduledEvents = <<>>]
        w4 == IF w3.engine.constructed["poly"] > 0 THEN release(w3, "poly") ELSE w3
        w5 == IF w4.engine.constructed["synth"] > 0 THEN release(w4, "synth") ELSE w4
    IN  w5

\* stop()
stop(w) ==
    LET w1 == [w  EXCEPT !.Transport = TransportStop(@), !.trace = Append(@, "stop")]
        w2 == [w1 EXCEPT !.Transport = TransportCancel(@), !.trace = Append(@, "cancel")]
        w3 == [w2 EXCEPT !.engine.scheduledEvents = <<>>]
        w4 == IF w3.engine.constructed["poly"] > 0 THEN release(w3, "poly") ELSE w3
        w5 == IF w4.engine.constructed["synth"] > 0 THEN release(w4, "synth") ELSE w4
    IN  w5

\* the log line customLoop emits at registration
InfoLine(name, interval) ==
    [type |-> "info", kind |-> "scheduling", name |-> name, interval |-> interval,
     message |-> ""]

\* customLoop that keeps one loop per name: a second loop of the same name
\* is logged but not scheduled
customLoop_byName(w, run, name, interval, cb) ==
    LET id == w.Transport.nextId
        w1 == [w  EXCEPT !.log = Append(@, InfoLine(name, interval))]
        w2 == [w1 EXCEPT !.Transport = TransportScheduleRepeat(@, run, name, interval, cb),
                         !.trace = Append(@, "scheduleRepeat")]
    IN  IF \E k \in 1..Len(w.Transport.timeline) : w.Transport.timeline[k].name = name
        THEN w1
        ELSE [w2 EXCEPT !.engine.scheduledEvents = Append(@, id)]

\* customLoop that schedules the loop without logging it
customLoop_silent(w, run, name, interval, cb) ==
    LET id == w.Transport.nextId
        w2 == [w EXCEPT !.Transport = TransportScheduleRepeat(@, run, name, interval, cb),
                        !.trace = Append(@, "scheduleRepeat")]
    IN  [w2 EXCEPT !.engine.scheduledEvents = Append(@, id)]

\* customLoop that also starts the Transport as soon as a loop is scheduled
customLoop_starts(w, run, name, interval, cb) ==
    LET id == w.Transport.nextId
        w1 == [w  EXCEPT !.log = Append(@, InfoLine(name, interval))]
        w2 == [w1 EXCEPT !.Transport = TransportScheduleRepeat(@, run, name, interval, cb),
                         !.trace = Append(@, "scheduleRepeat")]
        w3 == [w2 EXCEPT !.Transport = TransportStart(@), !.trace = Append(@, "start")]
    IN  [w3 EXCEPT !.engine.scheduledEvents = Append(@, id)]

\* customLoop(name, interval, callback)
customLoop(w, run, name, interval, cb) ==
    LET id == w.Transport.nextId
        w1 == [w  EXCEPT !.log = Append(@, InfoLine(name, interval))]
        w2 == [w1 EXCEPT !.Transport = TransportScheduleRepeat(@, run, name, interval, cb),
                         !.trace = Append(@, "scheduleRepeat")]
    IN  [w2 EXCEPT !.engine.scheduledEvents = Append(@, id)]

\* Tone.Transport.<method>() called by the script through its Tone parameter
toneTransport(w, method) ==
    [w EXCEPT !.Transport = CASE method = "start"  -> TransportStart(@)
                              [] method = "stop"   -> TransportStop(@)
                              [] OTHER             -> TransportCancel(@),
              !.trace = Append(@, method)]

\* runUserScript(...): execute the statements from the i-th on, until one throws
RECURSIVE runUserScript(_, _, _, _)
runUserScript(w, run, body, i) ==
    IF i > Len(body) THEN [w |-> w, thrown |-> "none"]
    ELSE LET s == body[i] IN
         IF s.op = "throw" THEN [w |-> w, thrown |-> s.value]
         ELSE IF s.op = "transport"
         THEN runUserScript(toneTransport(w, s.name), run, body, i + 1)
         ELSE IF s.op = "retain"
         THEN runUserScript(w, run, body, i + 1)
         ELSE runUserScript(customLoop(w, run, s.name, s.interval, s.callback),
                            run, body, i + 1)

\* the timer callbacks the script has set by the time runUserScript returns
\* or throws: the retain statements executed, as the script that remains to
\* be run on behalf of the call
RECURSIVE RetainedFrom(_, _)
RetainedFrom(body, i) ==
    IF i > Len(body) \/ body[i].op = "throw" THEN <<>>
    ELSE IF body[i].op = "retain" THEN <<body[i]>> \o RetainedFrom(body, i + 1)
    ELSE RetainedFrom(body, i + 1)

Retained(script) ==
    IF script.syntaxError THEN NoScript ELSE Script(FALSE, RetainedFrom(script.body, 1))

\* the log line of runCode's catch block
CompileLine(v) ==
    [type |-> "error", kind |-> "compilation", name |-> "", interval |-> 0,
     message |-> Message(v)]

\* a catch block that also tears the engine down with stop()
runCodeCatch_stops(w, v) ==
    IF MessageThrows(v)
    THEN [w |-> stop(w), outcome |-> "rejected", result |-> NoResult]
    ELSE [w |-> [stop(w) EXCEPT !.log = Append(@, CompileLine(v))],
          outcome |-> "resolved",
          result |-> [success |-> FALSE, error |-> Message(v)]]

\* runCode's catch block, for the caught value v
runCodeCatch(w, v) ==
    IF MessageThrows(v)
    THEN [w |-> w, outcome |-> "rejected", result |-> NoResult]
    ELSE [w |-> [w EXCEPT !.log = Append(@, CompileLine(v))],
          outcome |-> "resolved",
          result |-> [success |-> FALSE, error |-> Message(v)]]

\* runCode that compiles the script first and stops the previous run only
\* once the script compiled
runCode_stopLate(w, run, script) ==
    LET r == runUserScript(stop(w), run, script.body, 1)
    IN  IF script.syntaxError THEN runCodeCatch(w, "Error")
        ELSE IF r.thrown # "none" THEN runCodeCatch(r.w, r.thrown)
        ELSE [w |-> [r.w EXCEPT !.Transport = TransportStart(@),
                                !.trace = Append(@, "start")],
              outcome |-> "resolved",
              result |-> [success |-> TRUE, error |-> "none"]]

\* runCode that starts the Transport on the failure path too
runCode_startAlways(w, run, script) ==
    LET w1 == stop(w)
        r  == IF script.syntaxError
              THEN [w |-> w1, thrown |-> "Error"]
              ELSE runUserScript(w1, run, script.body, 1)
        c  == runCodeCatch(r.w, r.thrown)
    IN  IF r.thrown # "none"
        THEN [c EXCEPT !.w.Transport = TransportStart(@), !.w.trace = Append(@, "start")]
        ELSE [w |-> [r.w EXCEPT !.Transport = TransportStart(@),
                                !.trace = Append(@, "start")],
              outcome |-> "resolved",
              result |-> [success |-> TRUE, error |-> "none"]]

\* runCode without the stop() that clears the previous run
runCode_noStop(w, run, script) ==
    LET r  == IF script.syntaxError
              THEN [w |-> w, thrown |-> "Error"]
              ELSE runUserScript(w, run, script.body, 1)
    IN  IF r.thrown # "none"
        THEN runCodeCatch(r.w, r.thrown)
        ELSE [w |-> [r.w EXCEPT !.Transport = TransportStart(@),
                                !.trace = Append(@, "start")],
              outcome |-> "resolved",
              result |-> [success |-> TRUE, error |-> "none"]]

\* runCode after `await this.initialize()` returned normally
runCode(w, run, script) ==
    LET w1 == stop(w)
        r  == IF script.syntaxError
              THEN [w |-> w1, thrown |-> "Error"]
              ELSE runUserScript(w1, run, script.body, 1)
    IN  IF r.thrown # "none"
        THEN runCodeCatch(r.w, r.thrown)
        ELSE [w |-> [r.w EXCEPT !.Transport = TransportStart(@),
                                !.trace = Append(@, "start")],
              outcome |-> "resolved",
              result |-> [success |-> TRUE, error |-> "none"]]

\* the wrapper's log line written with the prefix of runCode's catch block
RuntimeLine_asCompilation(name, v) ==
    [type |-> "error", kind |-> "compilation", name |-> name, interval |-> 0,
     message |-> Message(v)]

\* the log line the scheduleRepeat wrapper emits from its catch block
RuntimeLine(name, v) ==
    [type |-> "error", kind |-> "runtime", name |-> name, interval |-> 0,
     message |-> Message(v)]

\* the wrapper customLoop hands to scheduleRepeat, invoked for event ev:
\* callback(time) inside try, the log line inside catch.  escaped tells
\* whether an exception leaves the wrapper.
loopWrapper(w, ev) ==
    LET cb == ev.callback
        w1 == [w EXCEPT !.fired = Append(@, ev.id),
                        !.triggered = IF cb.attack = "none" THEN @ ELSE @ \cup {cb.attack}]
    IN  IF cb.throws = "none" THEN [w |-> w1, escaped |-> FALSE]
        ELSE IF MessageThrows(cb.throws) THEN [w |-> w1, escaped |-> TRUE]
        ELSE [w |-> [w1 EXCEPT !.log = Append(@, RuntimeLine(ev.name, cb.throws))],
              escaped |-> FALSE]

\* the events of the timeline due at the current position, in insertion order
\* (scheduleRepeat's startTime defaults to 0)
Due(T) == SelectSeq(T.timeline, LAMBDA ev : T.ticks % ev.interval = 0)

\* the Transport invokes the due events from the i-th on; an exception that
\* leaves a callback ends the iteration over the events of this tick
RECURSIVE invokeDue(_, _, _)
invokeDue(w, due, i) ==
    IF i > Len(due) THEN w
    ELSE LET r == loopWrapper(w, due[i]) IN
         IF r.escaped THEN [r.w EXCEPT !.uncaught = TRUE]
         ELSE invokeDue(r.w, due, i + 1)

\* one tick of the running clock: the due events fire, the position advances
TransportTick(w) ==
    LET w1 == invokeDue(w, Due(w.Transport), 1)
    IN  [w1 EXCEPT !.Transport.ticks = @ + 1]

(* ------------------------------- Init ---------------------------------- *)
\* the audioService singleton and Tone.Transport as the module load leaves them
EngineInit ==
    /\ engine = [constructed |-> [o \in Objects |-> 0], scheduledEvents |-> <<>>,
                 analyserType |-> "none"]
    /\ Transport = [state |-> "stopped", ticks |-> 0, bpm |-> 120,
                    timeline |-> <<>>, nextId |-> 0]
    /\ triggered = {}
    /\ calls = <<>>
    /\ lastRun = 0
    /\ out = NoOut

Init ==
    /\ EngineInit
    /\ app = NoApp
    /\ agent = NoAgent

\* a microtask is queued: the continuation of `await this.initialize()`, or
\* the continuation of handleRun's `await audioService.runCode(...)`.  No
\* event handler and no clock tick runs before it.
MicrotaskPending ==
    \/ \E i \in 1..Len(calls) : calls[i].pc = "awaitInit"
    \/ /\ app.variant # "none"
       /\ \E i \in 1..Len(calls) : calls[i].pc = "done" /\ i \notin app.handled

\* the step's effect on the engine, the Transport and the voices, and what
\* the step is remembered by (arg: the argument of a setter)
CommitArg(w, op, call, arg) ==
    /\ engine' = w.engine
    /\ Transport' = w.Transport
    /\ triggered' = w.triggered
    /\ out' = [op |-> op, call |-> call,
               script |-> IF call = 0 THEN NoScript ELSE calls[call].script,
               log |-> w.log, trace |-> w.trace,
               fired |-> w.fired, uncaught |-> w.uncaught, before |-> Before,
               arg |-> arg]

Commit(w, op, call) == CommitArg(w, op, call, 0)

(* ------------------------------ actions -------------------------------- *)
\* the UI (or the agent) calls runCode(code): the call runs up to `await Tone.start()`
RunCodeCall ==
    /\ ~MicrotaskPending
    /\ Len(calls) < MaxCalls
    /\ \E s \in Scripts :
         calls' = Append(calls, [script |-> s, pc |-> "awaitStart", initOk |-> FALSE,
                                 outcome |-> "pending", result |-> NoResult])
    /\ out' = [NoOut EXCEPT !.op = "call", !.call = Len(calls) + 1]
    /\ UNCHANGED <<engine, Transport, triggered, lastRun, app, agent>>

\* Tone.start() settles and initialize() continues
InitializeResume ==
    \E i \in 1..Len(calls), ok \in BOOLEAN :
      /\ calls[i].pc = "awaitStart"
      /\ calls' = [calls EXCEPT ![i].pc = "awaitInit", ![i].initOk = ok]
      /\ engine' = IF ok THEN initialize(engine) ELSE engine
      /\ out' = [NoOut EXCEPT !.op = "initialize", !.call = i]
      /\ UNCHANGED <<Transport, triggered, lastRun, app, agent>>

\* runCode continues after `await this.initialize()`, to its return
RunCodeResume ==
    \E i \in 1..Len(calls) :
      /\ calls[i].pc = "awaitInit"
      /\ LET r == IF calls[i].initOk
                  THEN runCode(World, i, calls[i].script)
                  ELSE runCodeCatch(World, "Error")
         IN  /\ Commit(r.w, "runCode", i)
             /\ calls' = [calls EXCEPT ![i].pc = "done",
                                       ![i].script = IF calls[i].initOk
                                                     THEN Retained(calls[i].script)
                                                     ELSE NoScript,
                                       ![i].outcome = r.outcome,
                                       ![i].result = r.result]
      /\ lastRun' = IF calls[i].initOk THEN i ELSE lastRun
      /\ UNCHANGED <<app, agent>>

\* handleStop: audioService.stop()
Stop ==
    /\ ~MicrotaskPending
    /\ Commit(stop(World), "stop", 0)
    /\ UNCHANGED <<calls, lastRun, app, agent>>

\* the bpm effect: audioService.setBpm(bpm)
SetBpm ==
    /\ ~MicrotaskPending
    /\ \E b \in Bpms : b # Transport.bpm /\ CommitArg(setBpm(World, b), "setBpm", 0, b)
    /\ UNCHANGED <<calls, lastRun, app, agent>>

\* the audio clock reaches the next tick while the Transport is started
Tick ==
    /\ ~MicrotaskPending
    /\ Transport.state = "started"
    /\ Transport.ticks < MaxTicks
    /\ Commit(TransportTick(World), "tick", 0)
    /\ UNCHANGED <<calls, lastRun, app, agent>>

Next == RunCodeCall \/ InitializeResume \/ RunCodeResume \/ Stop \/ SetBpm \/ Tick

Spec == Init /\ [][Next]_vars

\* the engine where every awaited promise settles and every continuation is
\* run: a runCode call that has been made runs to its return
SpecFair ==
    /\ Init
    /\ [][Next]_vars
    /\ WF_vars(InitializeResume) /\ WF_vars(RunCodeResume)

\* runCode called with a script that uses the raw Tone module
RunCodeCallRaw ==
    /\ ~MicrotaskPending
    /\ Len(calls) < MaxCalls
    /\ \E s \in RawScripts :
         calls' = Append(calls, [script |-> s, pc |-> "awaitStart", initOk |-> FALSE,
                                 outcome |-> "pending", result |-> NoResult])
    /\ out' = [NoOut EXCEPT !.op = "call", !.call = Len(calls) + 1]
    /\ UNCHANGED <<engine, Transport, triggered, lastRun, app, agent>>

NextRaw == Next \/ RunCodeCallRaw

\* the engine with scripts that may also reach Tone.Transport directly
SpecRaw == Init /\ [][NextRaw]_vars

\* runCode called with a script that keeps the loop primitive
RunCodeCallRetain ==
    /\ ~MicrotaskPending
    /\ Len(calls) < MaxCalls
    /\ \E s \in RetainScripts :
         calls' = Append(calls, [script |-> s, pc |-> "awaitStart", initOk |-> FALSE,
                                 outcome |-> "pending", result |-> NoResult])
    /\ out' = [NoOut EXCEPT !.op = "call", !.call = Len(calls) + 1]
    /\ UNCHANGED <<engine, Transport, triggered, lastRun, app, agent>>

\* a timer set by the script of a completed call fires: its callback calls
\* the loop primitive of that call (the customLoop closure of its runCode)
LateLoop ==
    /\ ~MicrotaskPending
    /\ \E i \in 1..Len(calls) :
         /\ calls[i].pc = "done"
         /\ calls[i].script.body # <<>>
         /\ LET s == Head(calls[i].script.body)
            IN  Commit(customLoop(World, i, s.name, s.interval, s.callback), "lateLoop", i)
         /\ calls' = [calls EXCEPT ![i].script.body = Tail(@)]
    /\ UNCHANGED <<lastRun, app, agent>>

NextRetain ==
    \/ RunCodeCallRetain \/ InitializeResume \/ RunCodeResume
    \/ Stop \/ Tick \/ LateLoop

\* the engine run with scripts that call the loop primitive after their run
\* has ended
SpecRetain == Init /\ [][NextRetain]_vars

(* ------------------------------ the App ------------------------------- *)
\* the truthiness of the value `await audioService.runCode(...)` yields: an
\* ExecutionResult object, which is truthy whatever its success field says
Truthy(result) == TRUE

\* the condition handleRun branches on: part_002 tests result.success,
\* part_000 and part_001 test the awaited value itself
handleRunTest(variant, result) ==
    IF variant = "part_002" THEN result.success ELSE Truthy(result)

\* the line handleRun logs in the branch taken
KernelLine(running) ==
    [type |-> IF running THEN "success" ELSE "error",
     kind |-> IF running THEN "running" ELSE "panic",
     name |-> "", interval |-> 0, message |-> ""]

\* handleRun after `await audioService.runCode(...)` returned result
handleRun(a, i, result) ==
    LET running == handleRunTest(a.variant, result)
    IN  [app |-> [a EXCEPT !.isPlaying = running, !.handled = @ \cup {i}],
         log |-> <<KernelLine(running)>>]

\* an App is mounted on the freshly loaded engine
InitUI ==
    /\ EngineInit
    /\ \E v \in AppVariants : app = [NoApp EXCEPT !.variant = v]
    /\ agent = NoAgent

\* handleRun continues after its await: runCode's promise has settled
HandleRunResume ==
    \E i \in 1..Len(calls) :
      /\ app.variant # "none"
      /\ calls[i].pc = "done"
      /\ i \notin app.handled
      /\ \A j \in 1..Len(calls) : calls[j].pc # "awaitInit"
      /\ IF calls[i].outcome = "rejected"
         THEN /\ app' = [app EXCEPT !.handled = @ \cup {i}]
              /\ out' = [NoOut EXCEPT !.op = "handleRun", !.call = i, !.uncaught = TRUE]
         ELSE LET r == handleRun(app, i, calls[i].result)
              IN  /\ app' = r.app
                  /\ out' = [NoOut EXCEPT !.op = "handleRun", !.call = i, !.log = r.log]
      /\ UNCHANGED <<engine, Transport, triggered, calls, lastRun, agent>>

\* handleStop: audioService.stop(), setIsPlaying(false)
HandleStop ==
    /\ ~MicrotaskPending
    /\ app.variant # "none"
    /\ Commit(stop(World), "stop", 0)
    /\ app' = [app EXCEPT !.isPlaying = FALSE]
    /\ UNCHANGED <<calls, lastRun, agent>>

\* a click on the visualizer toggles visMode; the visMode effect then calls
\* audioService.setAnalyserType(visMode)
SetVisMode ==
    /\ ~MicrotaskPending
    /\ app.variant = "part_002"
    /\ LET m == IF app.visMode = "waveform" THEN "fft" ELSE "waveform"
       IN  /\ app' = [app EXCEPT !.visMode = m]
           /\ engine' = setAnalyserType(engine, m)
           /\ out' = [NoOut EXCEPT !.op = "setVisMode"]
    /\ UNCHANGED <<Transport, triggered, calls, lastRun, agent>>

\* an animation frame: render() reads audioService.analyser.getValue() when
\* the analyser exists and draws the samples according to visMode
Render ==
    /\ ~MicrotaskPending
    /\ app.variant = "part_002"
    /\ engine.constructed["analyser"] > 0
    /\ out' = [NoOut EXCEPT !.op = "render"]
    /\ UNCHANGED <<engine, Transport, triggered, calls, lastRun, app, agent>>

NextUI ==
    \/ RunCodeCall \/ InitializeResume \/ RunCodeResume
    \/ HandleRunResume \/ HandleStop \/ SetVisMode \/ Render

\* an App (one of the three sources) driving the engine
SpecUI == InitUI /\ [][NextUI]_vars

(* ----------------------------- the agent ------------------------------ *)
\* `let maxTurns = 5; // Safety break`
AgentMaxTurns == 5

\* the code the model passes to run_generated_code: one that runs, one that
\* does not compile, one whose failure makes runCode's promise reject
AgentScripts ==
    { Script(FALSE, << LoopStmt("a", 1, Callback("kick", "none")) >>),
      Script(TRUE,  <<>>),
      Script(FALSE, << ThrowStmt("Null") >>) }

\* what a settled sendMessage yields: a rejection, a response without
\* function call ("text"), one calling run_generated_code ("run"), one
\* calling a function of another name ("other")
AgentResponses == {"reject", "text", "run", "other"}

\* the while condition with `maxTurns >= 0` in the place of `maxTurns > 0`
agentContinues_offByOne(a) == a.response # "text" /\ a.maxTurns >= 0

\* the while condition: the response carries a function call and turns remain
agentContinues(a) == a.response # "text" /\ a.maxTurns > 0

\* catch (if an exception arrived) and finally: setIsAgentProcessing(false)
agentFinish(a) == [a EXCEPT !.pc = "idle", !.processing = FALSE, !.call = 0,
                            !.response = "none", !.maxTurns = 0]

\* the App of part_002 is mounted, the agent panel idle
InitAgent ==
    /\ EngineInit
    /\ app = [NoApp EXCEPT !.variant = "part_002"]
    /\ agent = NoAgent

\* handleAgentSubmit starts: setIsAgentProcessing(true), first sendMessage
AgentSubmit ==
    /\ agent.pc = "idle"
    /\ ~agent.processing
    /\ agent.messages < MaxMessages
    /\ agent' = [agent EXCEPT !.pc = "awaitFirst", !.processing = TRUE,
                              !.messages = @ + 1, !.iterations = 0, !.executions = 0]
    /\ out' = [NoOut EXCEPT !.op = "agentSubmit"]
    /\ UNCHANGED <<engine, Transport, triggered, calls, lastRun, app>>

\* a sendMessage settles
AgentResponse ==
    /\ agent.pc \in {"awaitFirst", "awaitNext"}
    /\ \E r \in AgentResponses :
         agent' = IF r = "reject" THEN agentFinish(agent)
                  ELSE [agent EXCEPT !.pc = "loop", !.response = r,
                                     !.maxTurns = IF agent.pc = "awaitFirst"
                                                  THEN AgentMaxTurns ELSE @]
    /\ out' = [NoOut EXCEPT !.op = "agentResponse"]
    /\ UNCHANGED <<engine, Transport, triggered, calls, lastRun, app>>

\* the head of the while loop and one pass of its body up to the next await
AgentLoop ==
    /\ agent.pc = "loop"
    /\ IF agentContinues(agent)
       THEN IF agent.response = "run"
            THEN /\ \E s \in AgentScripts :
                      calls' = Append(calls, [script |-> s, pc |-> "awaitStart",
                                              initOk |-> FALSE, outcome |-> "pending",
                                              result |-> NoResult])
                 /\ agent' = [agent EXCEPT !.pc = "awaitRun", !.maxTurns = @ - 1,
                                           !.iterations = @ + 1, !.executions = @ + 1,
                                           !.call = Len(calls) + 1]
            ELSE /\ agent' = [agent EXCEPT !.maxTurns = @ - 1, !.iterations = @ + 1]
                 /\ UNCHANGED calls
       ELSE /\ agent' = agentFinish(agent)
            /\ UNCHANGED calls
    /\ out' = [NoOut EXCEPT !.op = "agentLoop"]
    /\ UNCHANGED <<engine, Transport, triggered, lastRun, app>>

\* a runCode call whose promise has been consumed by its only awaiter
Consumed == [script |-> NoScript, pc |-> "done", initOk |-> FALSE,
             outcome |-> "resolved", result |-> NoResult]

\* `await handleRun(args.code)` settles: on a result the tool response is
\* sent, on a rejection the catch block is entered
AgentRunDone ==
    /\ agent.pc = "awaitRun"
    /\ agent.call \in app.handled
    /\ agent' = IF calls[agent.call].outcome = "rejected" THEN agentFinish(agent)
                ELSE [agent EXCEPT !.pc = "awaitNext"]
    /\ calls' = [calls EXCEPT ![agent.call] = Consumed]
    /\ out' = [NoOut EXCEPT !.op = "agentRunDone", !.call = agent.call]
    /\ UNCHANGED <<engine, Transport, triggered, lastRun, app>>

NextAgent ==
    \/ AgentSubmit \/ AgentResponse \/ AgentLoop \/ AgentRunDone
    \/ InitializeResume \/ RunCodeResume \/ HandleRunResume

\* the agent driving the engine; every awaited promise settles and every
\* continuation is run
SpecAgent ==
    /\ InitAgent
    /\ [][NextAgent]_vars
    /\ WF_vars(AgentResponse) /\ WF_vars(AgentLoop) /\ WF_vars(AgentRunDone)
    /\ WF_vars(InitializeResume) /\ WF_vars(RunCodeResume) /\ WF_vars(HandleRunResume)

(* ------------------------- auxiliary predicates ------------------------ *)
\* the last step was a runCode call that got past initialize() and ran
\* its stop / compile / execute sequence
Ran == out.op = "runCode" /\ calls[out.call].initOk

\* compiling or executing the script throws
ScriptThrows(script) ==
    script.syntaxError \/ \E k \in 1..Len(script.body) : script.body[k].op = "throw"

Succeeded(i) == calls[i].outcome = "resolved" /\ calls[i].result.success

\* the k-th registered loop is the one the statement s asked for, on behalf of call i
IsLoopOf(ev, s, i) ==
    /\ ev.run = i
    /\ ev.name = s.name
    /\ ev.interval = s.interval
    /\ ev.callback = s.callback

TimelineIds == {Transport.timeline[k].id : k \in 1..Len(Transport.timeline)}

C4_FailureResult ==
    (Ran /\ ScriptThrows(out.script)) =>
       /\ calls[out.call].outcome = "resolved"
       /\ ~calls[out.call].result.success
       /\ calls[out.call].result.error \notin {"", "undefined", "none"}
       /\ Len(SelectSeq(out.log, LAMBDA l : l.type = "error")) = 1

\* the loops due at the position the last tick processed
DueAtLastTick ==
    SelectSeq(Transport.timeline,
              LAMBDA ev : (Transport.ticks - 1) % ev.interval = 0)

\* C5: per-tick failure isolation.  Whatever a loop callback throws during
\* a tick, nothing escapes the wrapper, exactly one error line naming that
\* loop is emitted for the tick, the Transport keeps running, and every
\* loop due at the tick fires (the loops stay registered, so the throwing
\* loop is due again at its next tick).
C5_TickIsolation ==
    out.op = "tick" =>
       LET due == DueAtLastTick
           bad == SelectSeq(due, LAMBDA ev : ev.callback.throws # "none")
       IN  /\ ~out.uncaught
           /\ Transport.state = "started"
           /\ out.fired = [k \in 1..Len(due) |-> due[k].id]
           /\ Len(out.log) = Len(bad)
           /\ \A k \in 1..Len(bad) :
                 out.log[k].type = "error" /\ out.log[k].name = bad[k].name

NoCallInProgress == \A i \in 1..Len(calls) : calls[i].pc = "done"

\* C6: no partial states.  Whenever no runCode call is in progress the
\* engine is fully active (Transport started, the registered loops are those
\* of the last successful run) or fully torn down (Transport stopped, no
\* loop registered, no handle kept).
C6_NoPartialState ==
    NoCallInProgress =>
       \/ /\ Transport.state = "started"
          /\ lastRun > 0 /\ Succeeded(lastRun)
          /\ \A k \in 1..Len(Transport.timeline) : Transport.timeline[k].run = lastRun
       \/ /\ Transport.state = "stopped"
          /\ Transport.timeline = <<>>
          /\ engine.scheduledEvents = <<>>

\* C7: after stop() the Transport is stopped at position zero, no loop is
\* registered, the handle list is empty; and every stop() (the explicit one
\* and the one runCode begins with) invokes Transport.stop and then
\* Transport.cancel.
C7_StopTearsDown ==
    /\ out.op = "stop" =>
          /\ Transport.state = "stopped"
          /\ Transport.ticks = 0
          /\ Transport.timeline = <<>>
          /\ engine.scheduledEvents = <<>>
    /\ (out.op = "stop" \/ Ran) =>
          /\ Len(out.trace) >= 2
          /\ out.trace[1] = "stop"
          /\ out.trace[2] = "cancel"

\* stop() was called while a composition was playing, past position zero
C7_Witness ==
    /\ out.op = "stop"
    /\ out.before.state = "started"
    /\ out.before.ticks > 0
    /\ out.before.loops > 0

Initialized == \A o \in Objects : engine.constructed[o] > 0

\* C8: every stop() after initialization (the explicit one and the one
\* runCode begins with) releases all five voices: none is left triggered.
C8_StopReleasesAll ==
    ((out.op = "stop" \/ Ran) /\ Initialized) => triggered = {}

\* stop() applied twice gives the state stop() applied once gives, and
\* raises nothing
StopTwiceIsStopOnce ==
    LET a == stop(World)
        b == stop(a)
    IN  /\ ~a.uncaught /\ ~b.uncaught
        /\ b.engine = a.engine
        /\ b.Transport = a.Transport
        /\ b.triggered = a.triggered

\* nothing is running: the Transport is stopped and no loop is registered
TornDown ==
    /\ Transport.state = "stopped"
    /\ Transport.timeline = <<>>
    /\ engine.scheduledEvents = <<>>

\* C9: abort idempotence.  stop() called when nothing is running, also
\* before the engine was ever initialized, raises nothing and leaves the
\* Transport (state, position, tempo, loops), the handle list and the
\* instrument fields as they were; and from every state stop() after stop()
\* yields what a single stop() yields.
C9_AbortIdempotent ==
    [][ /\ StopTwiceIsStopOnce
        /\ StopTwiceIsStopOnce'
        /\ (out'.op = "stop" /\ TornDown) =>
              /\ ~out'.uncaught
              /\ Transport' = Transport
              /\ engine' = engine ]_vars

\* stop() was called before the first initialization, with every instrument
\* field still null
C9_Witness ==
    /\ out.op = "stop"
    /\ out.before.state = "stopped"
    /\ out.before.loops = 0
    /\ \A o \in Objects : engine.constructed[o] = 0

\* C10: a throw inside a loop callback at a tick leaves every runCode call
\* as it was (result unchanged, no promise turned into a rejection) and is
\* reported, if at all, by a runtime error line naming a registered loop,
\* never by a compilation error line.
C10_TickErrorsStayLocal ==
    [][ out'.op = "tick" =>
          /\ calls' = calls
          /\ \A j \in 1..Len(out'.log) :
                /\ out'.log[j].type = "error"
                /\ out'.log[j].kind = "runtime"
                /\ \E k \in 1..Len(Transport.timeline) :
                      Transport.timeline[k].name = out'.log[j].name ]_vars

\* a tick logged a callback's throw after the run that registered the loop
\* had resolved with success
C10_Witness ==
    /\ out.op = "tick"
    /\ out.log # <<>>
    /\ lastRun > 0 /\ Succeeded(lastRun)
    /\ calls[lastRun].pc = "done"

\* the log lines and the result a runCode call produces when compiling or
\* executing its script throws the value v
ScriptFailureReport(v) ==
    [log |-> <<CompileLine(v)>>, result |-> [success |-> FALSE, error |-> Message(v)]]

\* C11: a device-acquisition failure (initialize() throwing) is reported by
\* runCode distinctly from a compile/execution error: no value a script can
\* throw yields the same log line and result.
C11_DeviceFailureDistinct ==
    (out.op = "runCode" /\ ~calls[out.call].initOk) =>
       \A v \in Thrown :
          ~MessageThrows(v) =>
             [log |-> out.log, result |-> calls[out.call].result] # ScriptFailureReport(v)

\* C12: initialize() is idempotent.  Over sequential and overlapping calls
\* the analyser and each instrument is constructed at most once, and once
\* all six exist no step changes any of the six references.
C12_InitializeIdempotent ==
    [][ /\ \A o \in Objects : engine'.constructed[o] <= 1
        /\ Initialized => engine'.constructed = engine.constructed ]_vars

\* initialize() of the first call continued after a second call, started
\* while the first was awaiting the audio context, had already built the
\* objects and finished
C12_Witness ==
    /\ out.op = "initialize"
    /\ out.call = 1
    /\ calls[1].initOk
    /\ Len(calls) = 2 /\ calls[2].pc = "done" /\ calls[2].initOk
    /\ Initialized

\* C13: setBpm changes only the tempo, in every state, and stores the value
\* it is given; the Transport's state, position and registered loops, the
\* engine's fields, the voices and the runCode calls stay as they were.
C13_SetBpmFrame ==
    [][ out'.op = "setBpm" =>
          /\ Transport'.bpm = out'.arg
          /\ Transport' = [Transport EXCEPT !.bpm = out'.arg]
          /\ engine' = engine
          /\ triggered' = triggered
          /\ calls' = calls
          /\ ~out'.uncaught ]_vars

\* the tempo was set, mid-run with loops registered, to a value outside the
\* range of the UI slider
C13_Witness ==
    /\ out.op = "setBpm"
    /\ out.arg > 200
    /\ Transport.bpm = out.arg
    /\ Transport.state = "started"
    /\ Transport.ticks > 0
    /\ Transport.timeline # <<>>

\* the script calls a method of Tone.Transport directly
UsesRawTransport(script) ==
    \E k \in 1..Len(script.body) : script.body[k].op = "transport"

\* the Transport methods invoked while the script of the last runCode step
\* executed: what follows runCode's own stop and cancel, less its final start
ScriptTrace ==
    LET n == IF Succeeded(out.call) THEN Len(out.trace) - 1 ELSE Len(out.trace)
    IN  SubSeq(out.trace, 3, n)

\* the script changed the Transport only through the loop primitive: every
\* method invoked on its behalf is a scheduleRepeat made by a logged loop call
OnlyLoopPrimitive ==
    /\ \A j \in 1..Len(ScriptTrace) : ScriptTrace[j] = "scheduleRepeat"
    /\ Len(ScriptTrace) = Len(SelectSeq(out.log, LAMBDA l : l.kind = "scheduling"))
    /\ Succeeded(out.call) <=> Transport.state = "started"

\* C14 as stated: whatever the script, it can change the Transport's
\* schedule or running state only by calling the loop primitive.
C14_ScriptOnlyLoops == Ran => OnlyLoopPrimitive

\* C14 as amended: a script that does not call Tone.Transport through its
\* Tone parameter changes the Transport only by calling the loop primitive.
C14_ScriptOnlyLoopsUnlessRaw ==
    (Ran /\ ~UsesRawTransport(out.script)) => OnlyLoopPrimitive

\* a script without raw Transport calls registered a loop and then threw,
\* while scripts with raw Transport calls are among those run
C14_Witness ==
    /\ Ran /\ ~UsesRawTransport(out.script)
    /\ ScriptThrows(out.script)
    /\ Len(ScriptTrace) = 1
    /\ Len(calls) = 2 /\ out.call = 2
    /\ out.before.state = "started"

\* C15: at every sample read made once the analyser exists, the analyser is
\* in the mode last selected with setAnalyserType, that is in the UI's
\* visMode, also when the mode was selected before the first initialization.
C15_AnalyserFollowsVisMode ==
    out.op = "render" => engine.analyserType = app.visMode

\* C19: in every App variant, handleRun sets isPlaying to true and logs the
\* RUNNING line exactly when runCode's result reports success, and sets it
\* to false and logs a KERNEL PANIC line exactly when it reports failure.
C19_HandleRunFollowsResult ==
    (out.op = "handleRun" /\ calls[out.call].outcome = "resolved") =>
       /\ app.isPlaying = calls[out.call].result.success
       /\ out.log = <<KernelLine(calls[out.call].result.success)>>

SchedulingLines(log) == SelectSeq(log, LAMBDA l : l.kind = "scheduling")

\* C16: each call of the loop primitive emits exactly one info line with
\* the loop's name and interval, when it registers the loop: the scheduling
\* lines of a run are, in order, the loops that run registered on the
\* Transport, and no other step emits a scheduling line.
C16_OneInfoLinePerLoop ==
    /\ Ran =>
          LET info == SchedulingLines(out.log)
          IN  /\ Len(info) = Len(Transport.timeline)
              /\ \A k \in 1..Len(info) :
                    /\ info[k].type = "info"
                    /\ info[k].name = Transport.timeline[k].name
                    /\ info[k].interval = Transport.timeline[k].interval
    /\ out.op # "runCode" => SchedulingLines(out.log) = <<>>

\* a run registered two loops of different names and intervals
C16_Witness ==
    /\ Ran
    /\ Len(SchedulingLines(out.log)) = 2
    /\ out.log[1].name # out.log[2].name
    /\ out.log[1].interval # out.log[2].interval

C18_AllOrNothingCancel ==
    [][ /\ \/ /\ Len(Transport.timeline) <= Len(Transport'.timeline)
              /\ SubSeq(Transport'.timeline, 1, Len(Transport.timeline))
                    = Transport.timeline
           \/ TimelineIds \cap TimelineIds' = {}
        /\ Cardinality(TimelineIds' \ TimelineIds)
              = Len(SchedulingLines(out'.log)) ]_vars

\* stop() removed two registered loops at once
C18_Witness ==
    /\ out.op = "stop"
    /\ out.before.loops = 2
    /\ Transport.timeline = <<>>

\* C20: the agent's tool-calling loop terminates for every sequence of model
\* responses: at most 5 iterations and at most 5 script executions per
\* submitted message, and once the handler has finished, normally or
\* through an exception, isAgentProcessing is false.
C20_AgentLoopTerminates ==
    /\ [](/\ agent.iterations <= 5
          /\ agent.executions <= 5
          /\ agent.pc = "idle" => ~agent.processing)
    /\ (agent.processing ~> ~agent.processing)

\* the handler finished after five executions, none of which registered a
\* loop or started the Transport: the code failed to compile every time
C20_Witness ==
    /\ agent.pc = "idle" /\ ~agent.processing
    /\ agent.messages = 1
    /\ agent.iterations = 5 /\ agent.executions = 5
    /\ Len(calls) = 5 /\ lastRun = 5
    /\ Transport.state = "stopped"
    /\ Transport.nextId = 0

\* stop() has just been called while the latest runCode call (call i) was
\* suspended in initialize(), awaiting the audio context
AbortedWhilePending(i) ==
    /\ out.op = "stop"
    /\ Len(calls) = i
    /\ calls[i].pc = "awaitStart"

\* C21: an abort cancels a pending run.  Once stop() was called while a
\* runCode call was suspended in initialize(), and for as long as runCode is
\* not called again, the Transport stays stopped; and when the suspended
\* calls have completed no loop is registered.
C21_AbortCancelsPendingRun ==
    \A i \in 1..MaxCalls :
       [](AbortedWhilePending(i) =>
            [](Len(calls) = i =>
                 /\ Transport.state = "stopped"
                 /\ NoCallInProgress => TornDown))

\* the runCode calls i and j are in flight at the same time
Overlapping(i, j) ==
    /\ i < j /\ j <= Len(calls)
    /\ calls[i].pc # "done"
    /\ calls[j].pc # "done"

\* the last step completed call i or call j, and both have now completed
BothResolved(i, j) ==
    /\ i < j /\ j <= Len(calls)
    /\ out.op = "runCode" /\ out.call \in {i, j}
    /\ calls[i].pc = "done" /\ calls[j].pc = "done"

\* the registered loops are those the script of the last step registered if
\* it succeeded, and none if it failed
LoopsOfLastStep ==
    /\ \A k \in 1..Len(Transport.timeline) : Transport.timeline[k].run = out.call
    /\ Succeeded(out.call) =>
          /\ Len(Transport.timeline) = Len(out.script.body)
          /\ \A k \in 1..Len(Transport.timeline) :
                IsLoopOf(Transport.timeline[k], out.script.body[k], out.call)
    /\ ~Succeeded(out.call) => Transport.timeline = <<>>

\* C22: overlapping runs stay atomic.  When two runCode calls have been in
\* flight at the same time, then at the step that completes the second of
\* them the registered loops all belong to one call (never a mixture), and
\* if that step ran its stop / compile / execute / start sequence they are
\* exactly the loops of its script, none if the script failed.
C22_OverlappingRunsAtomic ==
    \A i, j \in 1..MaxCalls :
       [](Overlapping(i, j) =>
            [](BothResolved(i, j) =>
                 /\ \A k, l \in 1..Len(Transport.timeline) :
                       Transport.timeline[k].run = Transport.timeline[l].run
                 /\ Ran => LoopsOfLastStep))

\* C23: loops are registered only during the synchronous execution of the
\* current run's script.  A call of the loop primitive made after the run
\* of its script has ended leaves no loop registered, so every registered
\* loop belongs to the most recent run.
C23_LoopsOnlyDuringRun ==
    /\ out.op = "lateLoop" => Len(Transport.timeline) = out.before.loops
    /\ \A k \in 1..Len(Transport.timeline) : Transport.timeline[k].run = lastRun

\* the last step belongs to a runCode call whose initialize() failed
InitFailed(op) == out.op = op /\ ~calls[out.call].initOk

\* C24: when initialize() fails inside runCode the engine is left as it was
\* before the call.  Neither the failing initialize() nor the rest of the
\* call invokes a Transport method (no stop()), compiles or executes the
\* script or changes the Transport (state, position, loops), the engine's
\* fields (handles, instrument references) or the voices; the call resolves
\* to a failure and is never taken up again.
C24_InitFailureLeavesState ==
    [][ /\ (InitFailed("initialize")' \/ InitFailed("runCode")') =>
              /\ out'.trace = <<>>
              /\ SchedulingLines(out'.log) = <<>>
              /\ Transport' = Transport
              /\ engine' = engine
              /\ triggered' = triggered
              /\ lastRun' = lastRun
        /\ InitFailed("runCode")' =>
              /\ calls'[out'.call].pc = "done"
              /\ calls'[out'.call].script = NoScript
              /\ calls'[out'.call].outcome = "resolved"
              /\ ~calls'[out'.call].result.success
        /\ \A i \in 1..Len(calls) :
              (calls[i].pc = "done" /\ ~calls[i].initOk) => calls'[i] = calls[i] ]_vars

\* a second call failed in initialize() while the first call's composition
\* was playing, past position zero: it is still playing
C24_Witness ==
    /\ InitFailed("runCode")
    /\ out.call = 2
    /\ Succeeded(1) /\ lastRun = 1
    /\ out.before.state = "started" /\ out.before.ticks > 0 /\ out.before.loops > 0
    /\ Transport.state = "started"
    /\ Len(Transport.timeline) = out.before.loops

\* C25: initialization is all-or-nothing.  In every reachable state the
\* analyser and the five instruments are all null or all non-null, and
\* whenever runCode executes a script the five instrument handles it passes
\* are non-null.
C25_InitAllOrNothing ==
    /\ \/ \A o \in Objects : engine.constructed[o] = 0
       \/ \A o \in Objects : engine.constructed[o] > 0
    /\ Ran => \A v \in Voices : engine.constructed[v] > 0

\* a script was executed by the second call, the one that built the
\* objects, after the first call had failed in initialize()
C25_Witness ==
    /\ Ran /\ out.call = 2
    /\ calls[1].pc = "done" /\ ~calls[1].initOk
    /\ Len(SchedulingLines(out.log)) > 0
    /\ \A o \in Objects : engine.constructed[o] = 1

\* the positions of the trace at which Transport.start was invoked
Starts(trace) == {j \in 1..Len(trace) : trace[j] = "start"}

====
